---- MODULE Spec2Model ----
(***************************************************************************)
(* Numeric decoding of type-level digit chains (tstr, ToUint without const *)
(* generics): the digit markers __0..__9, tuples of arity 0..8 of ToUint   *)
(* parts, and the TStr<__<T>> wrapper, with their associated constants     *)
(* USIZE, U128 and DIGITS as the constant evaluator computes them.         *)
(*                                                                         *)
(* A u128 does not fit a TLC integer, so every 128-bit quantity is a       *)
(* little-endian sequence of 15-bit limbs without high zero limbs (zero is *)
(* the empty sequence); two values are equal iff their sequences are.      *)
(***************************************************************************)
EXTENDS Integers, Sequences, FiniteSets, TLC

VARIABLES lit, num, pos, stack, last

vars == <<lit, num, pos, stack, last>>

-----------------------------------------------------------------------------
(* Unbounded naturals as limb sequences.                                   *)

\* half of the 31 value bits of a TLC integer, so that a product of two limbs
\* plus a carry is still a TLC integer
LimbBits == 31 \div 2

Base == 2 ^ LimbBits

\* bit width of the u128 type of ToUint::U128
U128Bits == 128

Limb(a, i) == IF i <= Len(a) THEN a[i] ELSE 0

RECURSIVE AddFrom(_, _, _, _)
AddFrom(a, b, i, carry) ==
    IF i > Len(a) /\ i > Len(b)
    THEN (IF carry = 0 THEN << >> ELSE <<carry>>)
    ELSE LET t == Limb(a, i) + Limb(b, i) + carry
         IN  <<t % Base>> \o AddFrom(a, b, i + 1, t \div Base)

AddBig(a, b) == AddFrom(a, b, 1, 0)

RECURSIVE MulSmallFrom(_, _, _, _)
MulSmallFrom(a, m, i, carry) ==
    IF i > Len(a)
    THEN (IF carry = 0 THEN << >> ELSE <<carry>>)
    ELSE LET t == a[i] * m + carry
         IN  <<t % Base>> \o MulSmallFrom(a, m, i + 1, t \div Base)

\* a * m for a single limb m
MulSmall(a, m) == IF m = 0 THEN << >> ELSE MulSmallFrom(a, m, 1, 0)

ShiftLimbs(a, k) == IF a = << >> THEN << >> ELSE [i \in 1..k |-> 0] \o a

RECURSIVE MulFrom(_, _, _)
MulFrom(a, b, j) ==
    IF j > Len(b) THEN << >>
    ELSE AddBig(ShiftLimbs(MulSmall(a, b[j]), j - 1), MulFrom(a, b, j + 1))

MulBig(a, b) == MulFrom(a, b, 1)

RECURSIVE LessFrom(_, _, _)
LessFrom(a, b, i) ==
    IF i = 0 THEN FALSE
    ELSE IF a[i] # b[i] THEN a[i] < b[i]
    ELSE LessFrom(a, b, i - 1)

LessBig(a, b) ==
    IF Len(a) # Len(b) THEN Len(a) < Len(b) ELSE LessFrom(a, b, Len(a))

LeqBig(a, b) == a = b \/ LessBig(a, b)

RECURSIVE StripHigh(_)
StripHigh(a) ==
    IF a = << >> THEN << >>
    ELSE IF a[Len(a)] = 0 THEN StripHigh(SubSeq(a, 1, Len(a) - 1))
    ELSE a

\* a - 1 for a > 0
RECURSIVE DecFrom(_, _)
DecFrom(a, i) ==
    IF a[i] = 0 THEN <<Base - 1>> \o DecFrom(a, i + 1)
    ELSE <<a[i] - 1>> \o SubSeq(a, i + 1, Len(a))

SubOne(a) == StripHigh(DecFrom(a, 1))

\* 2^e
Pow2(e) == [i \in 1..(e \div LimbBits) |-> 0] \o <<2 ^ (e % LimbBits)>>

\* quotient and remainder of a by a single limb m, from the high limb down
RECURSIVE DivFrom(_, _, _, _)
DivFrom(a, m, i, rem) ==
    IF i = 0 THEN [q |-> << >>, r |-> rem]
    ELSE LET t    == rem * Base + a[i]
             rest == DivFrom(a, m, i - 1, t % m)
         IN  [q |-> Append(rest.q, t \div m), r |-> rest.r]

DivSmall(a, m) ==
    LET d == DivFrom(a, m, Len(a), 0) IN [q |-> StripHigh(d.q), r |-> d.r]

Small(n) == IF n = 0 THEN << >> ELSE <<n>>

\* the decimal digits of n, most significant first ("0" for zero)
RECURSIVE DecimalFrom(_)
DecimalFrom(n) ==
    IF n = << >> THEN << >>
    ELSE LET d == DivSmall(n, 10) IN Append(DecimalFrom(d.q), d.r)

DecimalOf(n) == IF n = << >> THEN <<0>> ELSE DecimalFrom(n)

\* the number written by digits i..j of s, for a run short enough for an integer
RECURSIVE Run(_, _, _)
Run(s, i, j) == IF j < i THEN 0 ELSE Run(s, i, j - 1) * 10 + s[j]

\* the base-10 interpretation of a digit sequence, without a width limit:
\* Horner over runs of four digits, acc * 10^4 + run
\* (Len(acc) >= 0 is always true: it makes TLC evaluate acc at every step
\* instead of nesting one deferred sum per run)
RECURSIVE HornerFrom(_, _, _)
HornerFrom(s, i, acc) ==
    IF i <= Len(s) /\ Len(acc) >= 0
    THEN LET j == IF i + 3 <= Len(s) THEN i + 3 ELSE Len(s)
         IN  HornerFrom(s, j + 1,
                        AddBig(MulSmall(acc, 10 ^ (j - i + 1)), Small(Run(s, i, j))))
    ELSE acc

DigitsValue(s) == HornerFrom(s, 1, << >>)

FitsU128(a) ==
    LET full == U128Bits \div LimbBits
        top  == U128Bits % LimbBits
    IN  \/ Len(a) <= full
        \/ Len(a) = full + 1 /\ a[full + 1] < 2 ^ top

-----------------------------------------------------------------------------
(* Results of constant evaluation: a value, or the error that stops it.    *)

Ok(v) == [ok |-> TRUE, val |-> v, why |-> "none"]

Err(w) == [ok |-> FALSE, val |-> << >>, why |-> w]

\* the low 128 bits of a
WrapU128(a) ==
    LET full == U128Bits \div LimbBits
        top  == U128Bits % LimbBits
    IN  StripHigh([i \in 1..(full + 1) |->
                      IF i <= full THEN Limb(a, i) ELSE Limb(a, i) % (2 ^ top)])

\* u128 `+` and `*` in a constant: overflow is an evaluation error
AddU128(x, y) ==
    IF ~x.ok THEN x
    ELSE IF ~y.ok THEN y
    ELSE LET s == AddBig(x.val, y.val)
         IN  IF FitsU128(s) THEN Ok(s) ELSE Err("overflow")

\* variant: wrapping_mul, the product silently reduced modulo 2^128
MulU128_wrapping(x, y) ==
    IF ~x.ok THEN x
    ELSE IF ~y.ok THEN y
    ELSE Ok(WrapU128(MulBig(x.val, y.val)))

MulU128(x, y) ==
    IF ~x.ok THEN x
    ELSE IF ~y.ok THEN y
    ELSE LET p == MulBig(x.val, y.val)
         IN  IF FitsU128(p) THEN Ok(p) ELSE Err("overflow")

\* the decimal literals of the table, as written
POW_TEN_SRC == <<
    <<1>>,
    <<1, 0>>,
    <<1, 0, 0>>,
    <<1, 0, 0, 0>>,
    <<1, 0, 0, 0, 0>>,
    <<1, 0, 0, 0, 0, 0>>,
    <<1, 0, 0, 0, 0, 0, 0>>,
    <<1, 0, 0, 0, 0, 0, 0, 0>>,
    <<1, 0, 0, 0, 0, 0, 0, 0, 0>>,
    <<1, 0, 0, 0, 0, 0, 0, 0, 0, 0>>,
    <<1, 0, 0, 0, 0, 0, 0, 0, 0, 0, 0>>,
    <<1, 0, 0, 0, 0, 0, 0, 0, 0, 0, 0, 0>>,
    <<1, 0, 0, 0, 0, 0, 0, 0, 0, 0, 0, 0, 0>>,
    <<1, 0, 0, 0, 0, 0, 0, 0, 0, 0, 0, 0, 0, 0>>,
    <<1, 0, 0, 0, 0, 0, 0, 0, 0, 0, 0, 0, 0, 0, 0>>,
    <<1, 0, 0, 0, 0, 0, 0, 0, 0, 0, 0, 0, 0, 0, 0, 0>>,
    <<1, 0, 0, 0, 0, 0, 0, 0, 0, 0, 0, 0, 0, 0, 0, 0, 0>>,
    <<1, 0, 0, 0, 0, 0, 0, 0, 0, 0, 0, 0, 0, 0, 0, 0, 0, 0>>,
    <<1, 0, 0, 0, 0, 0, 0, 0, 0, 0, 0, 0, 0, 0, 0, 0, 0, 0, 0>>,
    <<1, 0, 0, 0, 0, 0, 0, 0, 0, 0, 0, 0, 0, 0, 0, 0, 0, 0, 0, 0>>,
    <<1, 0, 0, 0, 0, 0, 0, 0, 0, 0, 0, 0, 0, 0, 0, 0, 0, 0, 0, 0, 0>>,
    <<1, 0, 0, 0, 0, 0, 0, 0, 0, 0, 0, 0, 0, 0, 0, 0, 0, 0, 0, 0, 0, 0>>,
    <<1, 0, 0, 0, 0, 0, 0, 0, 0, 0, 0, 0, 0, 0, 0, 0, 0, 0, 0, 0, 0, 0, 0>>,
    <<1, 0, 0, 0, 0, 0, 0, 0, 0, 0, 0, 0, 0, 0, 0, 0, 0, 0, 0, 0, 0, 0, 0, 0>>,
    <<1, 0, 0, 0, 0, 0, 0, 0, 0, 0, 0, 0, 0, 0, 0, 0, 0, 0, 0, 0, 0, 0, 0, 0, 0>>,
    <<1, 0, 0, 0, 0, 0, 0, 0, 0, 0, 0, 0, 0, 0, 0, 0, 0, 0, 0, 0, 0, 0, 0, 0, 0, 0>>,
    <<1, 0, 0, 0, 0, 0, 0, 0, 0, 0, 0, 0, 0, 0, 0, 0, 0, 0, 0, 0, 0, 0, 0, 0, 0, 0, 0>>,
    <<1, 0, 0, 0, 0, 0, 0, 0, 0, 0, 0, 0, 0, 0, 0, 0, 0, 0, 0, 0, 0, 0, 0, 0, 0, 0, 0, 0>>,
    <<1, 0, 0, 0, 0, 0, 0, 0, 0, 0, 0, 0, 0, 0, 0, 0, 0, 0, 0, 0, 0, 0, 0, 0, 0, 0, 0, 0, 0>>,
    <<1, 0, 0, 0, 0, 0, 0, 0, 0, 0, 0, 0, 0, 0, 0, 0, 0, 0, 0, 0, 0, 0, 0, 0, 0, 0, 0, 0, 0, 0>>,
    <<1, 0, 0, 0, 0, 0, 0, 0, 0, 0, 0, 0, 0, 0, 0, 0, 0, 0, 0, 0, 0, 0, 0, 0, 0, 0, 0, 0, 0, 0, 0>>,
    <<1, 0, 0, 0, 0, 0, 0, 0, 0, 0, 0, 0, 0, 0, 0, 0, 0, 0, 0, 0, 0, 0, 0, 0, 0, 0, 0, 0, 0, 0, 0, 0>>,
    <<1, 0, 0, 0, 0, 0, 0, 0, 0, 0, 0, 0, 0, 0, 0, 0, 0, 0, 0, 0, 0, 0, 0, 0, 0, 0, 0, 0, 0, 0, 0, 0, 0>>,
    <<1, 0, 0, 0, 0, 0, 0, 0, 0, 0, 0, 0, 0, 0, 0, 0, 0, 0, 0, 0, 0, 0, 0, 0, 0, 0, 0, 0, 0, 0, 0, 0, 0, 0>>,
    <<1, 0, 0, 0, 0, 0, 0, 0, 0, 0, 0, 0, 0, 0, 0, 0, 0, 0, 0, 0, 0, 0, 0, 0, 0, 0, 0, 0, 0, 0, 0, 0, 0, 0, 0>>,
    <<1, 0, 0, 0, 0, 0, 0, 0, 0, 0, 0, 0, 0, 0, 0, 0, 0, 0, 0, 0, 0, 0, 0, 0, 0, 0, 0, 0, 0, 0, 0, 0, 0, 0, 0, 0>>,
    <<1, 0, 0, 0, 0, 0, 0, 0, 0, 0, 0, 0, 0, 0, 0, 0, 0, 0, 0, 0, 0, 0, 0, 0, 0, 0, 0, 0, 0, 0, 0, 0, 0, 0, 0, 0, 0>>,
    <<1, 0, 0, 0, 0, 0, 0, 0, 0, 0, 0, 0, 0, 0, 0, 0, 0, 0, 0, 0, 0, 0, 0, 0, 0, 0, 0, 0, 0, 0, 0, 0, 0, 0, 0, 0, 0, 0>>,
    <<1, 0, 0, 0, 0, 0, 0, 0, 0, 0, 0, 0, 0, 0, 0, 0, 0, 0, 0, 0, 0, 0, 0, 0, 0, 0, 0, 0, 0, 0, 0, 0, 0, 0, 0, 0, 0, 0, 0>>
>>

\* the declared length of the table: &[u128; 39]
POW_TEN_LEN == 39

\* POW_TEN[i + 1] is the source's POW_TEN[i]
POW_TEN == [i \in 1..POW_TEN_LEN |-> DigitsValue(POW_TEN_SRC[i])]

\* variant: the index clamped to the last entry instead of failing
ten_pow_clamped(power) ==
    IF power < POW_TEN_LEN THEN Ok(POW_TEN[power + 1])
    ELSE Ok(POW_TEN[POW_TEN_LEN])

\* variant: a table one entry short, 10^38 missing
ten_pow_short(power) ==
    IF power < POW_TEN_LEN - 1 THEN Ok(POW_TEN[power + 1])
    ELSE Err("index")

\* variant: the table read one entry too far, 10^(power + 1)
ten_pow_oneBased(power) ==
    IF power + 1 < POW_TEN_LEN THEN Ok(POW_TEN[power + 2])
    ELSE Err("index")

\* indexing past the table is an evaluation error
ten_pow(power) ==
    IF power < POW_TEN_LEN THEN Ok(POW_TEN[power + 1])
    ELSE Err("index")

-----------------------------------------------------------------------------
(* The ToUint implementations.  A type is recorded by its three associated *)
(* constants and by `flat`, the digit markers it contains, left to right.  *)

\* variant: a copied line left with its old value, __6 = 5
DigitImpls_typo == <<
    [ty |-> "__0", val |-> 0],
    [ty |-> "__1", val |-> 1],
    [ty |-> "__2", val |-> 2],
    [ty |-> "__3", val |-> 3],
    [ty |-> "__4", val |-> 4],
    [ty |-> "__5", val |-> 5],
    [ty |-> "__6", val |-> 5],
    [ty |-> "__7", val |-> 7],
    [ty |-> "__8", val |-> 8],
    [ty |-> "__9", val |-> 9]
>>

\* impl_to_digit! { __0 = 0, ... }: marker type and the literal given for it
DigitImpls == <<
    [ty |-> "__0", val |-> 0],
    [ty |-> "__1", val |-> 1],
    [ty |-> "__2", val |-> 2],
    [ty |-> "__3", val |-> 3],
    [ty |-> "__4", val |-> 4],
    [ty |-> "__5", val |-> 5],
    [ty |-> "__6", val |-> 6],
    [ty |-> "__7", val |-> 7],
    [ty |-> "__8", val |-> 8],
    [ty |-> "__9", val |-> 9]
>>

\* the marker type that stands for decimal digit d
MarkerName == <<"__0", "__1", "__2", "__3", "__4", "__5", "__6", "__7", "__8", "__9">>

MarkerOf(d) == MarkerName[d + 1]

\* the ToUint impl the macro generates for marker type ty
impl_to_digit(ty) ==
    LET e == CHOOSE x \in {DigitImpls[i] : i \in DOMAIN DigitImpls} : x.ty = ty
    IN  [USIZE  |-> [from |-> "impl", val |-> e.val],
         U128   |-> Ok(Small(e.val)),
         DIGITS |-> 1]

\* ToUint::USIZE where an impl does not set it: the trait's own default,
\* a function of Self::U128 that the implementations here never override
DefaultUSIZE(u128) == [from |-> "default", val |-> 0]

\* variant: the wrapper counted as one more digit
TStrImpl_counted(t) ==
    [USIZE |-> t.USIZE, U128 |-> t.U128, DIGITS |-> t.DIGITS + 1]

\* impl<T: ToUint> ToUint for TStr<__<T>>
TStrImpl(t) ==
    [USIZE |-> t.USIZE, U128 |-> t.U128, DIGITS |-> t.DIGITS]

\* variant: every part shifts the sum by one digit, sum * 10
FoldStep_timesTen(sum, part) ==
    IF ~sum.ok THEN sum
    ELSE AddU128(part.U128, MulU128(sum, ten_pow(1)))

\* variant: the operands exchanged, sum + $ty::U128 * ten_pow($ty::DIGITS)
FoldStep_swapped(sum, part) ==
    IF ~sum.ok THEN sum
    ELSE AddU128(sum, MulU128(part.U128, ten_pow(part.DIGITS)))

\* one statement of the unrolled body: sum = $ty::U128 + sum * ten_pow($ty::DIGITS)
FoldStep(sum, part) ==
    IF ~sum.ok THEN sum
    ELSE AddU128(part.U128, MulU128(sum, ten_pow(part.DIGITS)))

\* the value of `sum` after each statement of the body
RECURSIVE FoldSums(_, _, _)
FoldSums(parts, i, sum) ==
    IF i > Len(parts) THEN << >>
    ELSE LET next == FoldStep(sum, parts[i])
         IN  <<next>> \o FoldSums(parts, i + 1, next)

TupleU128(parts) ==
    LET sums == FoldSums(parts, 1, Ok(<< >>))
    IN  IF sums = << >> THEN Ok(<< >>) ELSE sums[Len(sums)]

\* const DIGITS: u32 = 0 $( + $ty::DIGITS )*
RECURSIVE TupleDIGITS(_, _)
TupleDIGITS(parts, i) ==
    IF i > Len(parts) THEN 0
    ELSE parts[i].DIGITS + TupleDIGITS(parts, i + 1)

\* variant: the repetition of DIGITS misses the first part
tuple_impl_skipsFirst(parts) ==
    LET u == TupleU128(parts)
    IN  [USIZE |-> DefaultUSIZE(u), U128 |-> u, DIGITS |-> TupleDIGITS(parts, 2)]

\* variant: DIGITS counts the parts, not their digits
tuple_impl_countsParts(parts) ==
    LET u == TupleU128(parts)
    IN  [USIZE |-> DefaultUSIZE(u), U128 |-> u, DIGITS |-> Len(parts)]

\* tuple_impl! for the tuple of `parts`
tuple_impl(parts) ==
    LET u == TupleU128(parts)
    IN  [USIZE |-> DefaultUSIZE(u), U128 |-> u, DIGITS |-> TupleDIGITS(parts, 1)]

\* the largest tuple with an impl: tuple_impl! {A B C D E F G H}
MaxArity == 8

-----------------------------------------------------------------------------
(* The types under evaluation.  A literal `lit` is turned into a chain     *)
(* left to right: Digit pushes the marker of the next digit, Tuple groups  *)
(* the topmost k types into a tuple, Wrap puts TStr<__<..>> around the top.*)

\* exploration bounds
MaxStack == 8

MaxStackLong == 2

MaxShort == 6

MaxEmpty == 1

Typed(c, f) == [USIZE |-> c.USIZE, U128 |-> c.U128, DIGITS |-> c.DIGITS, flat |-> f]

RECURSIVE Flatten(_, _)
Flatten(parts, i) ==
    IF i > Len(parts) THEN << >> ELSE parts[i].flat \o Flatten(parts, i + 1)

\* how many of the parts hold no marker
Empties(parts) == Cardinality({i \in DOMAIN parts : parts[i].flat = << >>})

\* the operation that led to the state, with the tuple's arity
Did(op, parts) == [op |-> op, arity |-> Len(parts), empties |-> Empties(parts)]

StackCap == IF Len(lit) <= MaxShort THEN MaxStack ELSE MaxStackLong

Top(k) == SubSeq(stack, Len(stack) - k + 1, Len(stack))

Below(k) == SubSeq(stack, 1, Len(stack) - k)

\* numbers the literals are written from
SmallNumbers ==
    {Small(n) : n \in 0..12} \cup {<<n>> : n \in {907, 1024, 9999}}
        \cup {DigitsValue(<<9, 9, 9, 9, 9, 9>>)}

\* 2^64 (20 digits), 2^126 and 10^38 - 1 (38 digits), u128::MAX,
\* u128::MAX + 1 and 2^128 + 2^126 (39 digits)
BigNumbers ==
    {Pow2(U128Bits \div 2), Pow2(U128Bits - 2), SubOne(POW_TEN[POW_TEN_LEN]),
     SubOne(Pow2(U128Bits)), Pow2(U128Bits),
     AddBig(Pow2(U128Bits), Pow2(U128Bits - 2))}

Numbers == SmallNumbers \cup BigNumbers

\* literals that are not the decimal form of a number: empty, leading zeros
OtherLiterals ==
    {<< >>, <<0, 0>>, <<0, 7>>, <<0, 0, 0>>, <<0, 0, 4, 2>>}

Init ==
    /\ \/ \E n \in Numbers : lit = DecimalOf(n) /\ num = [given |-> TRUE, n |-> n]
       \/ \E s \in OtherLiterals : lit = s /\ num = [given |-> FALSE, n |-> << >>]
    /\ pos = 0
    /\ stack = << >>
    /\ last = Did("Init", << >>)

Digit ==
    /\ pos < Len(lit)
    /\ Len(stack) < StackCap
    /\ stack' = Append(stack, Typed(impl_to_digit(MarkerOf(lit[pos + 1])), <<lit[pos + 1]>>))
    /\ pos' = pos + 1
    /\ last' = Did("Digit", << >>)
    /\ UNCHANGED <<lit, num>>

Tuple(k) ==
    /\ k <= Len(stack)
    /\ k = 0 => Len(stack) < StackCap
    /\ LET parts == Top(k)
           t     == Typed(tuple_impl(parts), Flatten(parts, 1))
       IN  /\ Empties(Append(Below(k), t)) <= MaxEmpty
           /\ stack' = Append(Below(k), t)
           /\ last' = Did("Tuple", parts)
    /\ UNCHANGED <<lit, num, pos>>

Wrap ==
    /\ stack # << >>
    /\ LET t == stack[Len(stack)]
       IN  stack' = Append(Below(1), Typed(TStrImpl(t), t.flat))
    /\ last' = Did("Wrap", << >>)
    /\ UNCHANGED <<lit, num, pos>>

Next ==
    \/ Digit
    \/ \E k \in 0..MaxArity : Tuple(k)
    \/ Wrap

Spec == Init /\ [][Next]_vars

-----------------------------------------------------------------------------
(* Reference arithmetic for the properties: powers of ten by repeated      *)
(* multiplication, digit counts by comparison, the fold written with them. *)

\* <<10^0, ..., 10^k>>
RECURSIVE Pow10Seq(_)
Pow10Seq(k) ==
    IF k = 0 THEN << <<1>> >>
    ELSE LET prev == Pow10Seq(k - 1) IN Append(prev, MulSmall(prev[k], 10))

Pow10Tab == Pow10Seq(POW_TEN_LEN + 1)

Pow10(k) == Pow10Tab[k + 1]

\* the largest digit count the table serves as an index
SupportedDigits == POW_TEN_LEN - 1

\* the number of decimal digits of n (1 for zero)
RECURSIVE NumDigitsFrom(_, _)
NumDigitsFrom(n, d) ==
    IF LessBig(n, Pow10(d)) THEN d ELSE NumDigitsFrom(n, d + 1)

NumDigits(n) == NumDigitsFrom(n, 1)

\* value = value * 10^DIGITS(part) + U128(part), from 0, without a width
RECURSIVE RefFold(_, _)
RefFold(parts, i) ==
    IF i = 0 THEN << >>
    ELSE AddBig(MulBig(RefFold(parts, i - 1), Pow10(parts[i].DIGITS)),
                parts[i].U128.val)

RECURSIVE SumSeq(_)
SumSeq(q) == IF q = << >> THEN 0 ELSE q[1] + SumSeq(Tail(q))

NonEmpty(parts) == SelectSeq(parts, LAMBDA x : x.flat # << >>)

AllOk(parts) == \A i \in DOMAIN parts : parts[i].U128.ok

\* the arities a tuple over the topmost types can have
Arities == {k \in 0..MaxArity : k <= Len(stack)}

TopType == stack[Len(stack)]

Finished == pos = Len(lit) /\ Len(stack) = 1

-----------------------------------------------------------------------------
(* Properties.                                                             *)

\* C1: for every number N of at most 38 decimal digits, the chain built from
\* N's decimal digits, in whatever grouping, has U128 = N and DIGITS = the
\* number of decimal digits of N.
C1_DecodesToN ==
    (num.given /\ LessBig(num.n, Pow10(SupportedDigits)) /\ Finished)
        => /\ stack[1].U128 = Ok(num.n)
           /\ stack[1].DIGITS = NumDigits(num.n)

C1_Witness ==
    /\ num.given /\ num.n = SubOne(Pow10(SupportedDigits))
    /\ Finished
    /\ last.op = "Tuple" /\ last.arity = 2 /\ last.empties = 0
    /\ stack[1].DIGITS = SupportedDigits

\* C2 as stated: every chain of 39 or more digits, in any grouping, fails to
\* evaluate its U128.
C2_EveryLongChainFails ==
    \A i \in DOMAIN stack : stack[i].DIGITS > SupportedDigits => ~stack[i].U128.ok

\* C2, amended: a tuple fails whenever one of its parts has 39 or more digits
\* (index out of bounds when that part itself evaluated), so a 39-digit chain
\* fails once it is a part of another tuple; a chain of 39 or more digits whose
\* parts each have at most 38 digits fails exactly when its value does not fit
\* a u128.
C2_LongPartFails ==
    \A k \in Arities :
        LET parts == Top(k)
            t     == tuple_impl(parts)
        IN  /\ (\E i \in DOMAIN parts : parts[i].DIGITS > SupportedDigits)
                   => ~t.U128.ok
            /\ (k = 1 /\ parts[1].DIGITS > SupportedDigits /\ parts[1].U128.ok)
                   => t.U128 = Err("index")
            /\ ( /\ t.DIGITS > SupportedDigits
                 /\ AllOk(parts)
                 /\ \A i \in DOMAIN parts : parts[i].DIGITS <= SupportedDigits )
                   => (t.U128.ok <=> FitsU128(DigitsValue(Flatten(parts, 1))))

C2_Witness ==
    /\ last.op = "Tuple" /\ last.arity = 1
    /\ stack # << >>
    /\ TopType.DIGITS > SupportedDigits
    /\ TopType.U128 = Err("index")
    /\ FitsU128(DigitsValue(TopType.flat))

\* C3: a chain of at most 38 digits, in any nesting, evaluates: no index past
\* the table and no overflow at any statement of the fold, the unary tuple
\* around a whole chain included.
C3_ShortChainEvaluates ==
    /\ \A i \in DOMAIN stack : stack[i].DIGITS <= SupportedDigits => stack[i].U128.ok
    /\ \A k \in Arities :
           LET parts == Top(k)
               sums  == FoldSums(parts, 1, Ok(<< >>))
           IN  tuple_impl(parts).DIGITS <= SupportedDigits
                   => \A j \in DOMAIN sums : sums[j].ok

C3_Witness ==
    /\ Finished
    /\ last.op = "Tuple" /\ last.arity = 1
    /\ stack[1].DIGITS = SupportedDigits
    /\ stack[1].U128.ok

\* C4: the empty chain has U128 = 0 and DIGITS = 0, and a tuple with empty
\* parts, wherever they stand, has the U128 and DIGITS of the same tuple
\* without them.
C4_EmptyIsIdentity ==
    /\ \A i \in DOMAIN stack :
           stack[i].flat = << >> => stack[i].U128 = Ok(<< >>) /\ stack[i].DIGITS = 0
    /\ (last.op = "Tuple" /\ last.arity = 0)
           => TopType.U128 = Ok(<< >>) /\ TopType.DIGITS = 0
    /\ \A k \in Arities :
           LET parts == Top(k)
               with  == tuple_impl(parts)
               sans  == tuple_impl(NonEmpty(parts))
           IN  with.U128 = sans.U128 /\ with.DIGITS = sans.DIGITS

C4_Witness ==
    /\ last.op = "Tuple" /\ last.empties = 1 /\ last.arity = 3
    /\ TopType.DIGITS >= 2
    /\ TopType.U128 = Ok(DigitsValue(TopType.flat))

\* C5: DIGITS of a tuple is the sum of its parts' DIGITS, so in any nesting
\* DIGITS is the number of digit markers of the flattened chain, leading
\* zeros included.
C5_DigitsAdd ==
    /\ \A i \in DOMAIN stack : stack[i].DIGITS = Len(stack[i].flat)
    /\ \A k \in Arities :
           LET parts == Top(k)
           IN  /\ tuple_impl(parts).DIGITS = SumSeq([i \in DOMAIN parts |-> parts[i].DIGITS])
               /\ tuple_impl(parts).DIGITS = Len(Flatten(parts, 1))

C5_Witness ==
    /\ last.op = "Tuple" /\ last.arity = 2 /\ last.empties = 0
    /\ TopType.flat = <<0, 0, 4, 2>>
    /\ TopType.DIGITS = 4

\* C6: each marker __0..__9 has USIZE and U128 equal to its digit and
\* DIGITS = 1, and the ten values are exactly 0..9, no two alike.
C6_DigitMarkers ==
    /\ \A d \in 0..9 :
           LET m == impl_to_digit(MarkerOf(d))
           IN  /\ m.USIZE = [from |-> "impl", val |-> d]
               /\ m.U128 = Ok(Small(d))
               /\ m.DIGITS = 1
    /\ {DigitImpls[i].val : i \in DOMAIN DigitImpls} = 0..9
    /\ \A i, j \in DOMAIN DigitImpls :
           i # j => DigitImpls[i].val # DigitImpls[j].val /\ DigitImpls[i].ty # DigitImpls[j].ty
    /\ last.op = "Digit"
           => /\ TopType.USIZE.val = lit[pos]
              /\ TopType.U128 = Ok(Small(lit[pos]))
              /\ TopType.DIGITS = 1

C6_Witness ==
    /\ last.op = "Digit"
    /\ lit[pos] = 9
    /\ TopType.U128 = Ok(<<9>>)
    /\ TopType.USIZE.val = 9

\* C7: a tuple's value is the left-to-right fold
\* value = value * 10^DIGITS(part) + U128(part) from 0, which is the base-10
\* reading of the parts' digits put together; whatever the grouping, types with
\* the same flattened digits (at most 38) have the same U128 and DIGITS.
C7_GroupingIndependent ==
    /\ \A k \in Arities :
           LET parts == Top(k)
               t     == tuple_impl(parts)
           IN  Len(Flatten(parts, 1)) <= SupportedDigits
                   => /\ t.U128 = Ok(RefFold(parts, k))
                      /\ RefFold(parts, k) = DigitsValue(Flatten(parts, 1))
    /\ \A i, j \in DOMAIN stack :
           (stack[i].flat = stack[j].flat /\ Len(stack[i].flat) <= SupportedDigits)
               => /\ stack[i].U128 = stack[j].U128
                  /\ stack[i].DIGITS = stack[j].DIGITS
    /\ \A i \in DOMAIN stack :
           Len(stack[i].flat) <= SupportedDigits
               => stack[i].U128 = Ok(DigitsValue(stack[i].flat))

C7_Witness ==
    /\ last.op = "Tuple" /\ last.arity = 2 /\ last.empties = 0
    /\ Len(TopType.flat) >= 3
    /\ \E j \in 1..(Len(stack) - 1) :
           stack[j].flat = TopType.flat /\ stack[j].U128 = TopType.U128

\* C8: TStr<__<T>> has the USIZE, U128 and DIGITS of T: no digit added, no
\* value changed, and it fails to evaluate exactly when T does.
C8_TStrTransparent ==
    /\ \A i \in DOMAIN stack :
           LET w == TStrImpl(stack[i])
           IN  /\ w.USIZE = stack[i].USIZE
               /\ w.U128 = stack[i].U128
               /\ w.DIGITS = stack[i].DIGITS
    /\ last.op = "Wrap"
           => /\ TopType.DIGITS = Len(TopType.flat)
              /\ TopType.U128.ok => TopType.U128.val = DigitsValue(TopType.flat)
              /\ Len(TopType.flat) <= SupportedDigits => TopType.U128.ok

C8_Witness ==
    /\ last.op = "Wrap"
    /\ TopType.DIGITS = SupportedDigits
    /\ TopType.U128 = Ok(DigitsValue(TopType.flat))
    /\ TopType.USIZE.from = "default"

\* C9: on digit sequences of at most 38 digits, two chains have the same
\* (U128, DIGITS) iff they have the same digits; the empty chain, "0" and "00"
\* are told apart by DIGITS although all three have U128 = 0.
C9_Injective ==
    \A i, j \in DOMAIN stack :
        (Len(stack[i].flat) <= SupportedDigits /\ Len(stack[j].flat) <= SupportedDigits)
            => ( (stack[i].U128 = stack[j].U128 /\ stack[i].DIGITS = stack[j].DIGITS)
                    <=> stack[i].flat = stack[j].flat )

C9_Witness ==
    /\ last.op = "Tuple"
    /\ \E i, j, k \in DOMAIN stack :
           /\ stack[i].flat = << >> /\ stack[j].flat = <<0>> /\ stack[k].flat = <<0, 0>>
           /\ stack[i].U128 = stack[j].U128 /\ stack[j].U128 = stack[k].U128
           /\ stack[i].DIGITS = 0 /\ stack[j].DIGITS = 1 /\ stack[k].DIGITS = 2

\* the table holds 39 entries, entry i is 10^i, and each fits a u128
PowTenExact ==
    /\ Len(POW_TEN_SRC) = POW_TEN_LEN
    /\ \A i \in 0..SupportedDigits :
           POW_TEN[i + 1] = Pow10(i) /\ FitsU128(POW_TEN[i + 1])

\* C10: no silent wraparound.  A U128 that evaluates is the exact base-10
\* value; a tuple that fails has a part of 39 or more digits, a failed part, or
\* an exact value above 2^128 - 1; when every part has at most 38 digits and
\* the exact value fits, every intermediate sum evaluates and is at most the
\* final value; and POW_TEN[i] = 10^i < 2^128 for i in 0..38.
C10_NoWraparound ==
    /\ \A i \in DOMAIN stack :
           /\ stack[i].U128.ok => stack[i].U128.val = DigitsValue(stack[i].flat)
           /\ ~stack[i].U128.ok => stack[i].U128.why \in {"index", "overflow"}
    /\ \A k \in Arities :
           LET parts == Top(k)
               t     == tuple_impl(parts)
               exact == DigitsValue(Flatten(parts, 1))
               sums  == FoldSums(parts, 1, Ok(<< >>))
           IN  /\ t.U128.ok => t.U128.val = exact
               /\ (~t.U128.ok /\ AllOk(parts))
                      => \/ \E i \in DOMAIN parts : parts[i].DIGITS > SupportedDigits
                         \/ ~FitsU128(exact)
               /\ ( /\ AllOk(parts)
                    /\ \A i \in DOMAIN parts : parts[i].DIGITS <= SupportedDigits
                    /\ FitsU128(exact) )
                      => \A j \in DOMAIN sums :
                             sums[j].ok /\ LeqBig(sums[j].val, exact)
    /\ PowTenExact

C10_Witness ==
    /\ last.op = "Tuple" /\ last.arity >= 2
    /\ TopType.U128 = Err("overflow")
    /\ TopType.DIGITS = POW_TEN_LEN
    /\ ~FitsU128(DigitsValue(TopType.flat))

====
